---------------------------- MODULE Spec2Model ----------------------------
(***************************************************************************)
(* EdgeTier/email-reply-parser: EmailMessage.read (bottom-up fragment      *)
(* assembly and visibility), EmailMessage.reply, and                       *)
(* EmailReplyParser.cut_off_at_signature (sign-off / device-signature      *)
(* cut-off with the word-limit fallback).                                  *)
(*                                                                         *)
(* A Python str is a sequence of one-character strings.  Offsets are       *)
(* 0-based as in the source; Prefix and From are the slices s[:n], s[n:].  *)
(* Every regular expression is modelled by a matcher over the characters   *)
(* that occur in the texts of the model (Vocabulary below): an alternative *)
(* of a pattern is left out only if it needs a character that no text of   *)
(* the model (nor its ASCII-folded copy) contains.                         *)
(***************************************************************************)
EXTENDS Integers, Sequences, FiniteSets, TLC

(***************************************************************************)
(* Bounds of the model.                                                    *)
(***************************************************************************)
MaxScanLines == 4
MaxCutLines == 3
MaxPreLines == 2
MaxWordLimit == 3
LongWords == 101
BoundaryRuns == 9
MaxFoldTokens == 3
MaxConcurrentLines == 2

(***************************************************************************)
(* str helpers                                                             *)
(***************************************************************************)
MinOf(S) == CHOOSE x \in S : \A y \in S : x <= y
MaxOf(S) == CHOOSE x \in S : \A y \in S : x >= y

Reverse(s) == [i \in 1..Len(s) |-> s[Len(s) + 1 - i]]

\* s[:n] and s[n:] for n >= 0
Prefix(s, n) == SubSeq(s, 1, IF n < Len(s) THEN n ELSE Len(s))
From(s, n) == SubSeq(s, n + 1, Len(s))

\* the characters str.strip() and \s treat as whitespace
IsSpace(c) == c \in {" ", "\n", "\r"}

\* str.strip()
Strip(s) ==
    LET ns == {i \in 1..Len(s) : ~IsSpace(s[i])}
    IN  IF ns = {} THEN <<>> ELSE SubSeq(s, MinOf(ns), MaxOf(ns))

\* s.startswith(p) at 0-based offset i
MatchesAt(s, i, p) ==
    /\ i + Len(p) <= Len(s)
    /\ \A k \in 1..Len(p) : s[i + k] = p[k]

\* str.find(p): 0-based offset of the first occurrence, -1 if none
Find(s, p) ==
    LET at == {i \in 0..Len(s) : MatchesAt(s, i, p)}
    IN  IF at = {} THEN -1 ELSE MinOf(at)

\* Split, but splitting the empty text yields no piece at all
RECURSIVE SplitEmptyToNothing(_, _)
SplitEmptyToNothing(s, sep) ==
    LET at == {i \in 1..Len(s) : s[i] = sep}
    IN  IF s = <<>> THEN <<>>
        ELSE IF at = {} THEN <<s>>
        ELSE LET mid == CHOOSE i \in at :
                            Cardinality({j \in at : j < i}) = Cardinality(at) \div 2
             IN  (IF mid = 1 THEN <<<<>>>> ELSE SplitEmptyToNothing(SubSeq(s, 1, mid - 1), sep))
                 \o (IF mid = Len(s) THEN <<<<>>>>
                     ELSE SplitEmptyToNothing(SubSeq(s, mid + 1, Len(s)), sep))

\* str.split(sep) for a one-character sep: always at least one piece.
\* The text is cut at its middle separator and the halves are split in turn.
RECURSIVE Split(_, _)
Split(s, sep) ==
    LET at == {i \in 1..Len(s) : s[i] = sep}
    IN  IF at = {} THEN <<s>>
        ELSE LET mid == CHOOSE i \in at :
                            Cardinality({j \in at : j < i}) = Cardinality(at) \div 2
             IN  Split(SubSeq(s, 1, mid - 1), sep) \o Split(SubSeq(s, mid + 1, Len(s)), sep)

\* sep.join(pieces), joined by halves
RECURSIVE Join(_, _)
Join(pieces, sep) ==
    IF Len(pieces) = 0 THEN <<>>
    ELSE IF Len(pieces) = 1 THEN pieces[1]
    ELSE LET h == Len(pieces) \div 2
         IN  Join(SubSeq(pieces, 1, h), sep) \o sep
             \o Join(SubSeq(pieces, h + 1, Len(pieces)), sep)

\* str.replace(old, new): leftmost, non-overlapping, old non-empty
RECURSIVE Replace(_, _, _)
Replace(s, old, new) ==
    LET i == Find(s, old)
    IN  IF i = -1 THEN s
        ELSE Prefix(s, i) \o new \o Replace(From(s, i + Len(old)), old, new)

\* re.IGNORECASE on the letters of the model
Lower(c) ==
    CASE c = "A" -> "a" [] c = "C" -> "c" [] c = "D" -> "d" [] c = "E" -> "e"
      [] c = "I" -> "i" [] c = "L" -> "l" [] c = "N" -> "n" [] c = "O" -> "o"
      [] c = "R" -> "r" [] c = "S" -> "s" [] c = "T" -> "t" [] c = "U" -> "u"
      [] c = "X" -> "x"
      [] OTHER -> c

MatchesAtCI(s, i, p) ==
    /\ i + Len(p) <= Len(s)
    /\ \A k \in 1..Len(p) : Lower(s[i + k]) = Lower(p[k])

(***************************************************************************)
(* Pattern tables of EmailMessage                                          *)
(***************************************************************************)
\* QUOTED_REGEX.match(line): (>+) at the start of the line, not stripped
QUOTED_REGEX(line) == Len(line) > 0 /\ line[1] = ">"

\* QUOTE_HDR_REGEX.match(s), case-sensitive, anchored at the start only.
\* Italian alternative  Il.*ha(.*?)$
QUOTE_HDR_REGEX(s) ==
    /\ MatchesAt(s, 0, <<"I", "l">>)
    /\ \E j \in 2..Len(s) : MatchesAt(s, j, <<"h", "a">>)

\* HEADER_REGEX.match(line): (^(\*+)?.|^(\*)?)(From|...|A|...):\*?
\* field names of the alternation that a line of the model can spell
HeaderFields == {<<"A">>}

HeaderFieldAt(line, i) == \E f \in HeaderFields : MatchesAt(line, i, f \o <<":">>)

StarsAt(line) == {n \in 0..Len(line) : \A k \in 1..n : line[k] = "*"}

HEADER_REGEX(line) ==
    \/ \E n \in StarsAt(line) :
          /\ n < Len(line)
          /\ line[n + 1] # "\n"
          /\ HeaderFieldAt(line, n + 1)
    \/ HeaderFieldAt(line, 0)
    \/ Len(line) > 0 /\ line[1] = "*" /\ HeaderFieldAt(line, 1)

\* SENT_FROM_DEVICE_REGEX (re.MULTILINE) matching at 0-based offset i of s:
\* the bare-delimiter alternative ^-- ; ^ holds at 0 and after a newline
SENT_FROM_DEVICE_AT(s, i) ==
    /\ i = 0 \/ s[i] = "\n"
    /\ MatchesAt(s, i, <<"-", "-">>)

\* SENT_FROM_DEVICE_REGEX.match(s)
SENT_FROM_DEVICE_REGEX(s) == SENT_FROM_DEVICE_AT(s, 0)

\* MULTI_QUOTE_HDR_REGEX (re.IGNORECASE) matching at offset i of s.
\* Italian alternative  Il (.{,120})\n?(.{,50})?ha(\s+)?:
MultiQuoteHdrAt(s, i) ==
    /\ MatchesAtCI(s, i, <<"i", "l", " ">>)
    /\ \E j \in (i + 3)..Len(s) :
          /\ MatchesAtCI(s, j, <<"h", "a">>)
          /\ LET nl == {p \in (i + 3)..(j - 1) : s[p + 1] = "\n"}
             IN  \/ nl = {} /\ j - (i + 3) <= 170
                 \/ \E p \in nl : /\ nl = {p}
                                  /\ p - (i + 3) <= 120
                                  /\ j - (p + 1) <= 50
          /\ \E k \in (j + 2)..(Len(s) - 1) :
                /\ s[k + 1] = ":"
                /\ \A q \in (j + 2)..(k - 1) : IsSpace(s[q + 1])

\* MULTI_QUOTE_HDR_REGEX.search(s): start of the leftmost match, -1 if none
MULTI_QUOTE_HDR_REGEX(s) ==
    LET at == {i \in 0..Len(s) : MultiQuoteHdrAt(s, i)}
    IN  IF at = {} THEN -1 ELSE MinOf(at)

\* value of re.MULTILINE, which read() passes as the count argument of re.sub
RE_MULTILINE == 8

\* '([^\n])(?=\n ?[_-]{7,})' matching the character at 0-based offset i
BoundaryAhead(s, i) ==
    /\ i < Len(s)
    /\ s[i + 1] # "\n"
    /\ MatchesAt(s, i + 1, <<"\n">>)
    /\ LET b == IF MatchesAt(s, i + 2, <<" ">>) THEN i + 3 ELSE i + 2
           run(o) == /\ o + 7 <= Len(s)
                     /\ \A k \in 1..7 : s[o + k] \in {"_", "-"}
       IN  run(b) \/ run(i + 2)

\* re.sub('([^\n])(?=\n ?[_-]{7,})', '\\1\n', s, count): the text from
\* offset i on, with at most count replacements
RECURSIVE SubBoundary(_, _, _)
SubBoundary(s, i, count) ==
    LET at == {j \in i..Len(s) : BoundaryAhead(s, j)}
    IN  IF count = 0 \/ at = {} THEN From(s, i)
        ELSE SubSeq(s, i + 1, MinOf(at) + 1) \o <<"\n">>
             \o SubBoundary(s, MinOf(at) + 1, count - 1)

(***************************************************************************)
(* Fragment                                                                *)
(***************************************************************************)
\* Fragment(quoted, first_line, headers).  _content = None is the empty
\* sequence before finish(); lines = None is the empty sequence after it.
Fragment(quoted, first_line, headers) ==
    [signature |-> FALSE, headers |-> headers, hidden |-> FALSE,
     quoted |-> quoted, content |-> <<>>, lines |-> <<first_line>>]

\* finish, but the quoted flag is cleared
FinishClearingQuoted(f) ==
    [f EXCEPT !.content = Join(Reverse(f.lines), <<"\n">>), !.lines = <<>>,
              !.quoted = FALSE]

\* finish, but the lines are joined in the order they were appended
FinishWithoutReverse(f) ==
    [f EXCEPT !.content = Join(f.lines, <<"\n">>), !.lines = <<>>]

\* Fragment.finish()
finish(f) ==
    [f EXCEPT !.content = Join(Reverse(f.lines), <<"\n">>), !.lines = <<>>]

\* Fragment.content (the property): _content.strip()
content(f) == Strip(f.content)

(***************************************************************************)
(* EmailMessage: the assembler.  The pair fragment / None is a sequence of *)
(* at most one Fragment.                                                   *)
(***************************************************************************)
\* HidesFragment, but a signature does not hide
HidesFragmentIgnoringSignature(f) ==
    \/ f.quoted
    \/ f.headers
    \/ Len(Strip(content(f))) = 0

\* HidesFragment, but the headers flag does not hide
HidesFragmentExceptHeaders(f) ==
    \/ f.quoted
    \/ f.signature
    \/ Len(Strip(content(f))) = 0

\* HidesFragment, but empty content does not hide
HidesFragmentWithContentOnly(f) ==
    \/ f.quoted
    \/ f.headers
    \/ f.signature

\* _finish_fragment: the test that hides a fragment while nothing visible
\* has been found
HidesFragment(f) ==
    \/ f.quoted
    \/ f.headers
    \/ f.signature
    \/ Len(Strip(content(f))) = 0

\* HideAll, but no fragment is hidden
HideNone(frs) == frs

\* HideAll, but only the fragment finished last is hidden
HideLastOnly(frs) ==
    [i \in 1..Len(frs) |-> IF i = Len(frs) THEN [frs[i] EXCEPT !.hidden = TRUE] ELSE frs[i]]

\* _finish_fragment: a headers fragment hides every fragment finished so far
HideAll(frs) == [i \in 1..Len(frs) |-> [frs[i] EXCEPT !.hidden = TRUE]]

\* finish_fragment, but every fragment finished after the visible one is
\* hidden
FinishHidingLater(m) ==
    IF m.fragment = <<>> THEN m
    ELSE
      LET f0 == finish(m.fragment[1])
          fv == IF f0.headers THEN FALSE ELSE m.found_visible
          frs == IF f0.headers THEN HideAll(m.fragments) ELSE m.fragments
          f1 == IF fv \/ HidesFragment(f0) THEN [f0 EXCEPT !.hidden = TRUE] ELSE f0
      IN  [fragments |-> Append(frs, f1),
           fragment |-> <<>>,
           found_visible |-> IF ~fv /\ ~HidesFragment(f0) THEN TRUE ELSE fv]

\* finish_fragment, but finding the visible fragment shows again the
\* fragments finished before it
FinishShowingEarlier(m) ==
    IF m.fragment = <<>> THEN m
    ELSE
      LET f0 == finish(m.fragment[1])
          fv == IF f0.headers THEN FALSE ELSE m.found_visible
          frs == IF f0.headers THEN HideAll(m.fragments)
                 ELSE IF ~fv /\ ~HidesFragment(f0)
                      THEN [i \in 1..Len(m.fragments) |->
                               [m.fragments[i] EXCEPT !.hidden = FALSE]]
                      ELSE m.fragments
          f1 == IF ~fv /\ HidesFragment(f0) THEN [f0 EXCEPT !.hidden = TRUE] ELSE f0
      IN  [fragments |-> Append(frs, f1),
           fragment |-> <<>>,
           found_visible |-> IF ~fv /\ ~HidesFragment(f0) THEN TRUE ELSE fv]

\* finish_fragment, but a quoted fragment is hidden whenever it is finished
FinishHidingQuoted(m) ==
    IF m.fragment = <<>> THEN m
    ELSE
      LET f0 == finish(m.fragment[1])
          fv == IF f0.headers THEN FALSE ELSE m.found_visible
          frs == IF f0.headers THEN HideAll(m.fragments) ELSE m.fragments
          f1 == IF f0.quoted \/ (~fv /\ HidesFragment(f0))
                THEN [f0 EXCEPT !.hidden = TRUE] ELSE f0
      IN  [fragments |-> Append(frs, f1),
           fragment |-> <<>>,
           found_visible |-> IF ~fv /\ ~HidesFragment(f0) THEN TRUE ELSE fv]

\* _finish_fragment on the assembler state m = [fragments, fragment, found_visible]
finish_fragment(m) ==
    IF m.fragment = <<>> THEN m
    ELSE
      LET f0 == finish(m.fragment[1])
          fv == IF f0.headers THEN FALSE ELSE m.found_visible
          frs == IF f0.headers THEN HideAll(m.fragments) ELSE m.fragments
          f1 == IF ~fv /\ HidesFragment(f0) THEN [f0 EXCEPT !.hidden = TRUE] ELSE f0
      IN  [fragments |-> Append(frs, f1),
           fragment |-> <<>>,
           found_visible |-> IF ~fv /\ ~HidesFragment(f0) THEN TRUE ELSE fv]

\* IsSignatureEnd, but every blank line ends the current fragment as a
\* signature
SignatureEndOnAnyBlank(m, line) ==
    /\ m.fragment # <<>>
    /\ Len(Strip(line)) = 0

\* IsSignatureEnd, but the test never succeeds
NeverSignatureEnd(m, line) == FALSE

\* _scan_line: the blank-line test for a device signature on the line
\* appended last
IsSignatureEnd(m, line) ==
    /\ m.fragment # <<>>
    /\ Len(Strip(line)) = 0
    /\ LET ls == m.fragment[1].lines
       IN  SENT_FROM_DEVICE_REGEX(Strip(ls[Len(ls)]))

\* Continues, but only on equal flags
ContinuesOnEqualFlags(m, line, is_quote_header, is_quoted, is_header) ==
    /\ m.fragment # <<>>
    /\ m.fragment[1].headers = is_header
    /\ m.fragment[1].quoted = is_quoted

\* Continues, but any line continues a current fragment
ContinuesAlways(m, line, is_quote_header, is_quoted, is_header) ==
    m.fragment # <<>>

\* _scan_line: the line continues the current fragment
Continues(m, line, is_quote_header, is_quoted, is_header) ==
    /\ m.fragment # <<>>
    /\ \/ /\ m.fragment[1].headers = is_header
          /\ m.fragment[1].quoted = is_quoted
       \/ /\ m.fragment[1].quoted
          /\ is_quote_header \/ Len(Strip(line)) = 0

\* _scan_line(line) on the assembler state m
scan_line(m, line) ==
    LET is_quote_header == QUOTE_HDR_REGEX(Strip(line))
        is_quoted == QUOTED_REGEX(line)
        is_header == is_quote_header \/ HEADER_REGEX(line)
        m1 == IF IsSignatureEnd(m, line)
              THEN finish_fragment(
                     [m EXCEPT !.fragment = <<[m.fragment[1] EXCEPT !.signature = TRUE]>>])
              ELSE m
    IN  IF Continues(m1, line, is_quote_header, is_quoted, is_header)
        THEN [m1 EXCEPT !.fragment =
                 <<[m1.fragment[1] EXCEPT !.lines = Append(@, line)]>>]
        ELSE [finish_fragment(m1) EXCEPT
                 !.fragment = <<Fragment(is_quoted, line, is_header)>>]

\* read(): the text after the multi-line header cut and the boundary fix
Preprocess(t) ==
    LET is_multi_quote_header == MULTI_QUOTE_HDR_REGEX(Strip(t))
        t1 == IF is_multi_quote_header # -1
              THEN Prefix(Strip(t), is_multi_quote_header)
              ELSE t
    IN  SubBoundary(t1, 0, RE_MULTILINE)

\* ReplyParts, but quoted fragments are not left out
RECURSIVE ReplyPartsWithQuoted(_)
ReplyPartsWithQuoted(frs) ==
    IF Len(frs) = 0 THEN <<>>
    ELSE IF ~frs[1].hidden
         THEN <<content(frs[1])>> \o ReplyPartsWithQuoted(Tail(frs))
         ELSE ReplyPartsWithQuoted(Tail(frs))

\* EmailMessage.reply: the loop over self.fragments
RECURSIVE ReplyParts(_)
ReplyParts(frs) ==
    IF Len(frs) = 0 THEN <<>>
    ELSE IF ~(frs[1].hidden \/ frs[1].quoted)
         THEN <<content(frs[1])>> \o ReplyParts(Tail(frs))
         ELSE ReplyParts(Tail(frs))

reply(frs) == Join(ReplyParts(frs), <<"\n">>)

(***************************************************************************)
(* ASCII folding                                                           *)
(***************************************************************************)
\* UNIDECODE_EXCEPTIONS, in the dict's insertion order: <<symbol, placeholder>>.
\* The entries for the euro sign and the dollar; the other eight symbols
\* (and their placeholders) occur in no text of the model, and replacing
\* a string that does not occur changes nothing.
UNIDECODE_EXCEPTIONS == <<
    <<<<"U+20AC">>, <<"_", "_", "E", "U", "R", "O", "_", "_">>>>,
    <<<<"$">>, <<"_", "_", "U", "S", "D", "_", "_">>>>
>>

\* unidecode.unidecode on one character (a non-ASCII character is written by
\* its code point): ASCII is kept; the horizontal ellipsis U+2026 becomes
\* three full stops and the euro sign U+20AC becomes EUR
UnidecodeChar(c) ==
    CASE c = "U+2026" -> <<".", ".", ".">>
      [] c = "U+20AC" -> <<"E", "U", "R">>
      [] OTHER -> <<c>>

RECURSIVE unidecode(_)
unidecode(s) ==
    LET at == {i \in 1..Len(s) : UnidecodeChar(s[i]) # <<s[i]>>}
    IN  IF at = {} THEN s
        ELSE SubSeq(s, 1, MinOf(at) - 1) \o UnidecodeChar(s[MinOf(at)])
             \o unidecode(From(s, MinOf(at)))

\* the two loops of unidecode_with_exceptions over exceptions.items()
RECURSIVE ToPlaceholders(_, _)
ToPlaceholders(s, exceptions) ==
    IF Len(exceptions) = 0 THEN s
    ELSE ToPlaceholders(Replace(s, exceptions[1][1], exceptions[1][2]), Tail(exceptions))

RECURSIVE FromPlaceholders(_, _)
FromPlaceholders(s, exceptions) ==
    IF Len(exceptions) = 0 THEN s
    ELSE FromPlaceholders(Replace(s, exceptions[1][2], exceptions[1][1]), Tail(exceptions))

unidecode_with_exceptions(s, exceptions) ==
    FromPlaceholders(unidecode(ToPlaceholders(s, exceptions)), exceptions)

(***************************************************************************)
(* Sign-off and device-signature matches                                   *)
(***************************************************************************)
\* EMAIL_SIGNOFF_REGEX (re.IGNORECASE), alternative  (saluti)(.{0,20})(,|\n)  of
\* the closing group, at offset i: end offset, -1 if no match.  The greedy
\* .{0,20} stays on the line and gives back to the last "," or "\n" in reach.
ClosingEndAt(s, i) ==
    IF ~MatchesAtCI(s, i, <<"s", "a", "l", "u", "t", "i">>) THEN -1
    ELSE LET a == i + 6
             line_end == MinOf({q \in a..Len(s) : q = Len(s) \/ s[q + 1] = "\n"})
             ks == {k \in 0..MinOf({20, line_end - a}) :
                       a + k < Len(s) /\ s[a + k + 1] \in {",", "\n"}}
         IN  IF ks = {} THEN -1 ELSE a + MaxOf(ks) + 1

\* EMAIL_SIGNOFF_REGEX (re.IGNORECASE), alternative  (merci)(,?!?\n)  of the
\* thanks group, at offset i: end offset, -1 if no match.
ThanksEndAt(s, i) ==
    IF ~MatchesAtCI(s, i, <<"m", "e", "r", "c", "i">>) THEN -1
    ELSE LET a == i + 5
             b == IF MatchesAt(s, a, <<",">>) THEN a + 1 ELSE a
             c == IF MatchesAt(s, b, <<"!">>) THEN b + 1 ELSE b
         IN  IF MatchesAt(s, c, <<"\n">>) THEN c + 1
             ELSE IF MatchesAt(s, b, <<"\n">>) THEN b + 1
             ELSE IF MatchesAt(s, a, <<"!">>) /\ MatchesAt(s, a + 1, <<"\n">>) THEN a + 2
             ELSE IF MatchesAt(s, a, <<"\n">>) THEN a + 1
             ELSE -1

\* EMAIL_SIGNOFF_REGEX at offset i: the closing group is tried before the
\* thanks group
SignoffEndAt(s, i) ==
    IF ClosingEndAt(s, i) # -1 THEN ClosingEndAt(s, i) ELSE ThanksEndAt(s, i)

\* SENT_FROM_DEVICE_REGEX at offset i: end offset, -1 if no match
DeviceEndAt(s, i) == IF SENT_FROM_DEVICE_AT(s, i) THEN i + 2 ELSE -1

\* EMAIL_SIGNOFF_REGEX.finditer(s) from offset i: [start, end] of the
\* non-overlapping matches, leftmost first
RECURSIVE SignoffFinditer(_, _)
SignoffFinditer(s, i) ==
    LET at == {j \in i..Len(s) : SignoffEndAt(s, j) # -1}
    IN  IF at = {} THEN <<>>
        ELSE LET j == MinOf(at)
             IN  <<[start |-> j, end |-> SignoffEndAt(s, j)]>>
                 \o SignoffFinditer(s, SignoffEndAt(s, j))

\* SENT_FROM_DEVICE_REGEX.finditer(s) from offset i
RECURSIVE DeviceFinditer(_, _)
DeviceFinditer(s, i) ==
    LET at == {j \in i..Len(s) : DeviceEndAt(s, j) # -1}
    IN  IF at = {} THEN <<>>
        ELSE LET j == MinOf(at)
             IN  <<[start |-> j, end |-> DeviceEndAt(s, j)]>>
                 \o DeviceFinditer(s, DeviceEndAt(s, j))

\* [match for match in matches if match.start() > end_of_first_line_index]
AfterFirstLine(matches, end_of_first_line_index) ==
    SelectSeq(matches, LAMBDA m : m.start > end_of_first_line_index)

\* \w
NonWord == {" ", "\n", "\r", ",", ".", ":", ";", "-", ">", "<", "!", "?", "*",
            "U+2026", "U+20AC", "$", "U+00A3", "U+00A5", "U+20B9", "U+20A9"}
IsWordChar(c) == c \notin NonWord

\* (\w+)[\n.] at offset p of e: end offset of the token, -1 if none
TokenEnd(e, p) ==
    LET stops == {q \in p..Len(e) : q = Len(e) \/ ~IsWordChar(e[q + 1])}
        q == MinOf(stops)
    IN  IF q > p /\ q < Len(e) /\ e[q + 1] \in {"\n", "."} THEN q + 1 ELSE -1

\* ((\w+)[\n.])+ at offset p: end of the greedy run of tokens
RECURSIVE RunEnd(_, _)
RunEnd(e, p) == IF TokenEnd(e, p) = -1 THEN p ELSE RunEnd(e, TokenEnd(e, p))

\* SignatureMatchEnds, but without the \Z alternative
SignatureRunsOnly(e) ==
    LET at == {p \in 0..Len(e) : TokenEnd(e, p) # -1}
    IN  IF at = {} THEN <<>> ELSE <<RunEnd(e, MinOf(at))>>

\* re.finditer(r"((\w+)[\n.])+|\Z", e): end offsets of the matches; only the
\* first is used, and \Z always supplies one
SignatureMatchEnds(e) ==
    LET at == {p \in 0..Len(e) : TokenEnd(e, p) # -1 \/ p = Len(e)}
    IN  IF at = {} THEN <<>> ELSE <<RunEnd(e, MinOf(at))>>

(***************************************************************************)
(* The cut-off engine                                                      *)
(***************************************************************************)
\* word_limit is None (the empty sequence) or <<n>>
word_limit_cut_off(body, word_limit) ==
    IF word_limit # <<>>
    THEN LET email_body_list == Split(Replace(body, <<"\n">>, <<" ", "\n">>), " ")
             newlines_offset ==
                 Cardinality({k \in 1..Len(email_body_list) :
                                 email_body_list[k] = <<" ", "\n">>})
         IN  Replace(Join(Prefix(email_body_list, word_limit[1] + newlines_offset), <<" ">>),
                     <<" ", "\n">>, <<"\n">>)
    ELSE body

\* keep_signoff / remove_signoff: the cut at the first device match
DeviceCut(body, sent_from_device_matches) ==
    IF Len(sent_from_device_matches) > 0
    THEN Prefix(body, sent_from_device_matches[1].start)
    ELSE body

\* keep_signoff, but the end of the sign-off is not compared with the length
\* of the body
KeepSignoffUnvalidated(body, signoff_matches, sent_from_device_matches, word_limit) ==
    LET b == DeviceCut(body, sent_from_device_matches)
    IN  IF Len(signoff_matches) > 0
        THEN LET end_of_email == From(b, signoff_matches[1].end)
                 signature_matches_end_positions == SignatureMatchEnds(end_of_email)
             IN  Prefix(b, signoff_matches[1].end + signature_matches_end_positions[1])
        ELSE word_limit_cut_off(b, word_limit)

keep_signoff(body, signoff_matches, sent_from_device_matches, word_limit) ==
    LET b == DeviceCut(body, sent_from_device_matches)
    IN  IF Len(signoff_matches) > 0 /\ signoff_matches[1].end < Len(b)
        THEN LET end_of_email == From(b, signoff_matches[1].end)
                 signature_matches_end_positions == SignatureMatchEnds(end_of_email)
             IN  IF Len(signature_matches_end_positions) > 0
                 THEN Prefix(b, signoff_matches[1].end + signature_matches_end_positions[1])
                 ELSE Prefix(b, signoff_matches[1].end)
        ELSE word_limit_cut_off(b, word_limit)

\* the value of word_limit_cut_off is dropped in the else branch
remove_signoff(body, signoff_matches, sent_from_device_matches, word_limit) ==
    LET b == DeviceCut(body, sent_from_device_matches)
    IN  IF Len(signoff_matches) > 0 /\ signoff_matches[1].start < Len(b)
        THEN Prefix(b, signoff_matches[1].start)
        ELSE b

EMAIL_HEADER_WARNINGS == <<<<
    "C", "A", "U", "T", "I", "O", "N", ":", "T", "h", "i", "s",
    " ", "m", "e", "s", "s", "a", "g", "e", " ", "i", "s", " ",
    "f", "r", "o", "m", " ", "a", "n", " ", "E", "X", "T", "E",
    "R", "N", "A", "L", " ", "S", "E", "N", "D", "E", "R", " ",
    "-", " ", "b", "e", " ", "C", "A", "U", "T", "I", "O", "U",
    "S", ",", " ", "D", "o", " ", "N", "O", "T", " ", "C", "l",
    "i", "c", "k", " ", "a", "n", "y", " ", "l", "i", "n", "k",
    "s", " ", "o", "r", " ", "O", "p", "e", "n", " ", "a", "n",
    "y", " ", "a", "t", "t", "a", "c", "h", "m", "e", "n", "t",
    "s", " ", "i", "f", " ", "y", "o", "u", " ", "w", "e", "r",
    "e", " ", "n", "o", "t", " ", "e", "x", "p", "e", "c", "t",
    "i", "n", "g", " ", "t", "h", "e", "m", "."
>>>>

\* a warning used as a pattern matches at offset i: "." matches any
\* character but a newline, every other character of the warnings is literal
PatternAt(s, i, pat) ==
    /\ i + Len(pat) <= Len(s)
    /\ \A k \in 1..Len(pat) :
          IF pat[k] = "." THEN s[i + k] # "\n" ELSE s[i + k] = pat[k]

\* re.sub(substring, "", body)
RECURSIVE ReSubEmpty(_, _)
ReSubEmpty(s, pat) ==
    LET at == {i \in 0..Len(s) : PatternAt(s, i, pat)}
    IN  IF at = {} THEN s
        ELSE Prefix(s, MinOf(at)) \o ReSubEmpty(From(s, MinOf(at) + Len(pat)), pat)

RECURSIVE RemoveEach(_, _)
RemoveEach(body, substrings) ==
    IF Len(substrings) = 0 THEN body
    ELSE RemoveEach(ReSubEmpty(body, substrings[1]), Tail(substrings))

remove_substrings_from_text(body, substrings) == Strip(RemoveEach(body, substrings))

\* clean_email_content: the matches handed to keep_signoff / remove_signoff
SignoffMatches(body) ==
    LET body_clean == unidecode_with_exceptions(body, UNIDECODE_EXCEPTIONS)
    IN  AfterFirstLine(SignoffFinditer(body_clean, 0), Find(body_clean, <<"\n">>))

SentFromDeviceMatches(body) ==
    LET body_clean == unidecode_with_exceptions(body, UNIDECODE_EXCEPTIONS)
        end_of_first_line_index == Find(body_clean, <<"\n">>)
    IN  IF end_of_first_line_index # -1
        THEN AfterFirstLine(DeviceFinditer(body_clean, 0), end_of_first_line_index)
        ELSE <<>>

\* StripDeviceLines, but the last line is never dropped
StripLeadingLineOnly(body) ==
    LET body_lines == Split(body, "\n")
        body_lines_unidecode == Split(unidecode(body), "\n")
    IN  IF SENT_FROM_DEVICE_REGEX(body_lines_unidecode[1])
        THEN Join(Tail(body_lines), <<"\n">>)
        ELSE Join(body_lines, <<"\n">>)

\* StripDeviceLines, but the first line is dropped whatever it is
StripFirstLineAlways(body) ==
    LET body_lines == Split(body, "\n")
        body_lines_unidecode == Split(unidecode(body), "\n")
        kept == Tail(body_lines)
    IN  IF SENT_FROM_DEVICE_REGEX(body_lines_unidecode[Len(body_lines_unidecode)])
        THEN Join(SubSeq(kept, 1, Len(kept) - 1), <<"\n">>)
        ELSE Join(kept, <<"\n">>)

\* clean_email_content: the lines kept of the truncated, stripped body
StripDeviceLines(body) ==
    LET body_lines == Split(body, "\n")
        body_lines_unidecode == Split(unidecode(body), "\n")
        kept == IF SENT_FROM_DEVICE_REGEX(body_lines_unidecode[1])
                THEN Tail(body_lines) ELSE body_lines
    IN  IF SENT_FROM_DEVICE_REGEX(body_lines_unidecode[Len(body_lines_unidecode)])
        THEN Join(SubSeq(kept, 1, Len(kept) - 1), <<"\n">>)
        ELSE Join(kept, <<"\n">>)

\* clean_email_content indexes [0] and [-1] of the split lines
CleanRaises(body) == Len(Split(unidecode(Strip(body)), "\n")) = 0

clean_email_content(body, include, word_limit) ==
    LET cut == IF include
               THEN keep_signoff(body, SignoffMatches(body),
                                 SentFromDeviceMatches(body), word_limit)
               ELSE remove_signoff(body, SignoffMatches(body),
                                   SentFromDeviceMatches(body), word_limit)
    IN  remove_substrings_from_text(StripDeviceLines(Strip(cut)), EMAIL_HEADER_WARNINGS)

(***************************************************************************)
(* Inputs: a text is the newline-join of lines taken from a vocabulary.    *)
(***************************************************************************)
\* lines that drive the assembler: blank, plain, quoted, header field,
\* device delimiter, quote introducer
ScanVocabulary ==
    { <<>>, <<"x">>, <<">", "x">>, <<"A", ":", "x">>, <<"-", "-">>,
      <<"I", "l", "h", "a">> }

\* lines that drive the cut-off engine: words, repeated spaces, sign-offs
\* (at the start and in the middle of a line),
\* a signature-shaped token, a device delimiter, non-ASCII characters
CutVocabulary ==
    { <<>>, <<"x">>, <<"y", " ", " ", "z">>, <<"m", "e", "r", "c", "i">>,
      <<"m", "e", "r", "c", "i", ",">>, <<"-", "-">>, <<"x", ".", "y">>,
      <<"U+2026", "U+2026">>, <<"x", " ", "s", "a", "l", "u", "t", "i", ",">> }

\* lines that drive the preprocessing of read(): boundary runs, a multi-line
\* quote header in one and in two lines, a Windows line ending, a warning,
\* a warning with another last character
PreVocabulary ==
    { <<"x">>, <<"-", "-", "-", "-", "-", "-", "-">>,
      <<" ", "-", "-", "-", "-", "-", "-", "-">>,
      <<"I", "l", " ", "h", "a", ":">>, <<"I", "l", " ", "x">>, <<"h", "a", ":">>,
      <<"x", "\r">>, EMAIL_HEADER_WARNINGS[1],
      Prefix(EMAIL_HEADER_WARNINGS[1], Len(EMAIL_HEADER_WARNINGS[1]) - 1) \o <<"!">> }

TextsOf(vocabulary, n) ==
    UNION { { Join(ls, <<"\n">>) : ls \in [1..k -> vocabulary] } : k \in 0..n }

ScanTexts == TextsOf(ScanVocabulary, MaxScanLines)
CutTexts == TextsOf(CutVocabulary, MaxCutLines)
PreTexts == TextsOf(PreVocabulary, MaxPreLines)

\* a one-line text of LongWords words
LongText == [i \in 1..(2 * LongWords - 1) |-> IF i % 2 = 1 THEN "x" ELSE " "]

\* a text of BoundaryRuns lines of reply text, each directly above a boundary
\* line of seven dashes
BoundaryText ==
    Join([i \in 1..(2 * BoundaryRuns) |->
             IF i % 2 = 1 THEN <<"x">> ELSE <<"-", "-", "-", "-", "-", "-", "-">>],
         <<"\n">>)

\* word_limit: None or 0..MaxWordLimit
WordLimits == {<<>>} \cup { <<n>> : n \in 0..MaxWordLimit }

(***************************************************************************)
(* The state machine                                                       *)
(***************************************************************************)
VARIABLES
    input,          \* the str handed to EmailReplyParser.read / cut_off_at_signature
    text,           \* EmailMessage.text
    lines,          \* EmailMessage.lines still to be scanned, bottom-up
    fragments,      \* EmailMessage.fragments
    fragment,       \* EmailMessage.fragment: <<>> is None
    found_visible,  \* EmailMessage.found_visible
    pc,             \* "new", "scan", "read", "parsed", "cut", "error"
    include,        \* argument of cut_off_at_signature
    word_limit,     \* argument of cut_off_at_signature
    result,         \* value returned by parse_reply / cut_off_at_signature
    calls           \* the Messages of concurrent callers, one per caller

vars == <<input, text, lines, fragments, fragment, found_visible, pc,
          include, word_limit, result, calls>>

\* the assembler state of the message
M == [fragments |-> fragments, fragment |-> fragment, found_visible |-> found_visible]

\* EmailMessage.__init__(text)
InitWith(texts) ==
    /\ input \in texts
    /\ text = Replace(input, <<"\r", "\n">>, <<"\n">>)
    /\ lines = <<>>
    /\ fragments = <<>>
    /\ fragment = <<>>
    /\ found_visible = FALSE
    /\ pc = "new"
    /\ include = TRUE
    /\ word_limit = <<>>
    /\ result = <<>>

Init ==
    /\ InitWith(ScanTexts \cup CutTexts \cup PreTexts \cup {LongText, BoundaryText})
    /\ calls = <<>>

\* read(): up to the reversed list of lines
Read ==
    /\ pc = "new"
    /\ text' = Preprocess(text)
    /\ lines' = Reverse(Split(Preprocess(text), "\n"))
    /\ found_visible' = FALSE
    /\ pc' = "scan"
    /\ UNCHANGED <<calls, input, fragments, fragment, include, word_limit, result>>

\* _scan_line indexes lines[-1] of the current fragment
ScanRaises(m) == m.fragment # <<>> /\ Len(m.fragment[1].lines) = 0

\* read(): one iteration of  for line in self.lines: self._scan_line(line)
ScanLine ==
    /\ pc = "scan"
    /\ lines # <<>>
    /\ IF ScanRaises(M)
       THEN /\ pc' = "error"
            /\ UNCHANGED <<fragments, fragment, found_visible, lines>>
       ELSE /\ fragments' = scan_line(M, Head(lines)).fragments
            /\ fragment' = scan_line(M, Head(lines)).fragment
            /\ found_visible' = scan_line(M, Head(lines)).found_visible
            /\ lines' = Tail(lines)
            /\ pc' = pc
    /\ UNCHANGED <<calls, input, text, include, word_limit, result>>

\* read(): the last _finish_fragment and fragments.reverse()
FinishRead ==
    /\ pc = "scan"
    /\ lines = <<>>
    /\ fragments' = Reverse(finish_fragment(M).fragments)
    /\ fragment' = finish_fragment(M).fragment
    /\ found_visible' = finish_fragment(M).found_visible
    /\ pc' = "read"
    /\ UNCHANGED <<calls, input, text, lines, include, word_limit, result>>

\* parse_reply(text): read(text).reply
ParseReply ==
    /\ pc = "read"
    /\ result' = reply(fragments)
    /\ pc' = "parsed"
    /\ UNCHANGED <<calls, input, text, lines, fragments, fragment, found_visible,
                   include, word_limit>>

\* cut_off_at_signature(body, include, word_limit) on the parsed reply
cut_off_at_signature(parsed_email, inc, wl) ==
    Strip(clean_email_content(parsed_email, inc, wl))

CutOffAtSignature ==
    /\ pc = "read"
    /\ \E inc \in BOOLEAN, wl \in WordLimits :
          /\ include' = inc
          /\ word_limit' = wl
          /\ IF CleanRaises(reply(fragments))
             THEN pc' = "error" /\ result' = result
             ELSE /\ result' = cut_off_at_signature(reply(fragments), inc, wl)
                  /\ pc' = "cut"
    /\ UNCHANGED <<calls, input, text, lines, fragments, fragment, found_visible>>

\* the default of the parameter word_limit of cut_off_at_signature
DEFAULT_WORD_LIMIT == 1000

\* cut_off_at_signature(body): include and word_limit take their defaults
CutOffAtSignatureDefault ==
    /\ pc = "read"
    /\ include' = TRUE
    /\ word_limit' = <<DEFAULT_WORD_LIMIT>>
    /\ IF CleanRaises(reply(fragments))
       THEN pc' = "error" /\ result' = result
       ELSE /\ result' = cut_off_at_signature(reply(fragments), TRUE, <<DEFAULT_WORD_LIMIT>>)
            /\ pc' = "cutdefault"
    /\ UNCHANGED <<calls, input, text, lines, fragments, fragment, found_visible>>

Next ==
    \/ Read \/ ScanLine \/ FinishRead \/ ParseReply \/ CutOffAtSignature
    \/ CutOffAtSignatureDefault

Spec == Init /\ [][Next]_vars

(***************************************************************************)
(* read() called once more on the message it returned.  read() does not    *)
(* reset self.fragments, so the second scan appends to the list of the     *)
(* first; pc tells the two passes apart.                                   *)
(***************************************************************************)
\* message.read() on a message whose read() has returned
ReadAgain ==
    /\ pc \in {"read", "parsed"}
    /\ text' = Preprocess(text)
    /\ lines' = Reverse(Split(Preprocess(text), "\n"))
    /\ found_visible' = FALSE
    /\ pc' = "rescan"
    /\ UNCHANGED <<calls, input, fragments, fragment, include, word_limit, result>>

\* one iteration of the loop of the second read()
ScanLineAgain ==
    /\ pc = "rescan"
    /\ lines # <<>>
    /\ IF ScanRaises(M)
       THEN /\ pc' = "error"
            /\ UNCHANGED <<fragments, fragment, found_visible, lines>>
       ELSE /\ fragments' = scan_line(M, Head(lines)).fragments
            /\ fragment' = scan_line(M, Head(lines)).fragment
            /\ found_visible' = scan_line(M, Head(lines)).found_visible
            /\ lines' = Tail(lines)
            /\ pc' = pc
    /\ UNCHANGED <<calls, input, text, include, word_limit, result>>

\* the last _finish_fragment and fragments.reverse() of the second read()
FinishReadAgain ==
    /\ pc = "rescan"
    /\ lines = <<>>
    /\ fragments' = Reverse(finish_fragment(M).fragments)
    /\ fragment' = finish_fragment(M).fragment
    /\ found_visible' = finish_fragment(M).found_visible
    /\ pc' = "reread"
    /\ UNCHANGED <<calls, input, text, lines, include, word_limit, result>>

\* message.reply read after the second read()
ReplyAgain ==
    /\ pc = "reread"
    /\ result' = reply(fragments)
    /\ pc' = "reparsed"
    /\ UNCHANGED <<calls, input, text, lines, fragments, fragment, found_visible,
                   include, word_limit>>

NextReread ==
    \/ Read \/ ScanLine \/ FinishRead \/ ParseReply
    \/ ReadAgain \/ ScanLineAgain \/ FinishReadAgain \/ ReplyAgain

SpecReread == Init /\ [][NextReread]_vars

(***************************************************************************)
(* Properties                                                              *)
(***************************************************************************)
IsPrefix(a, b) == Len(a) <= Len(b) /\ SubSeq(b, 1, Len(a)) = a

\* str.lstrip()
LStrip(s) ==
    LET ns == {i \in 1..Len(s) : ~IsSpace(s[i])}
    IN  IF ns = {} THEN <<>> ELSE SubSeq(s, MinOf(ns), Len(s))

\* the reply of the message that was read
Parsed == reply(fragments)

\* the contents of the fragments that are neither hidden nor quoted, top to bottom
VisibleContents(frs) ==
    LET vis == SelectSeq(frs, LAMBDA f : ~f.hidden /\ ~f.quoted)
    IN  [i \in 1..Len(vis) |-> Strip(vis[i].content)]

\* C1: after read(text) the reply is the newline-join of the content of
\* exactly the fragments that are neither hidden nor quoted, in top-to-bottom
\* order, and parse_reply(text) returns that reply.
C1_ReplyJoinsVisible ==
    /\ pc \in {"read", "parsed", "cut"} =>
          /\ Parsed = Join(VisibleContents(fragments), <<"\n">>)
          /\ Len(ReplyParts(fragments)) =
                Cardinality({i \in 1..Len(fragments) :
                                ~fragments[i].hidden /\ ~fragments[i].quoted})
    /\ pc = "parsed" => result = Join(VisibleContents(fragments), <<"\n">>)

\* a reply was returned for a message with a visible fragment, a hidden
\* fragment with text and a quoted fragment that is not hidden
C1_Witness ==
    /\ pc = "parsed"
    /\ result # <<>>
    /\ \E i \in 1..Len(fragments) : fragments[i].hidden /\ content(fragments[i]) # <<>>
    /\ \E i \in 1..Len(fragments) : fragments[i].quoted /\ ~fragments[i].hidden

\* the step finishes a fragment
JustFinished == Len(fragments') = Len(fragments) + 1

\* the fragment the step finished, and the places of those finished before it
\* (FinishRead also reverses the list)
NewFragment ==
    IF pc' = "read" THEN fragments'[1] ELSE fragments'[Len(fragments')]
EarlierPlaces ==
    IF pc' = "read" THEN 2..Len(fragments') ELSE 1..(Len(fragments') - 1)

C2_Step ==
    (JustFinished /\ NewFragment.headers) =>
        /\ \A i \in EarlierPlaces : fragments'[i].hidden
        /\ ~found_visible'

C2_Final ==
    pc = "read" =>
        \A i \in 1..Len(fragments) : \A j \in (i + 1)..Len(fragments) :
            fragments[i].headers => fragments[j].hidden

\* C2: when a header fragment is finished during the bottom-up scan, every
\* fragment finished before it is hidden and found_visible is false right
\* afterwards; so in the final list every fragment after a header fragment
\* is hidden.
C2_HeaderHidesEarlier == [][C2_Step]_vars /\ []C2_Final

\* a header fragment was finished above a fragment of plain text
C2_Witness ==
    /\ pc = "scan"
    /\ Len(fragments) >= 2
    /\ fragments[Len(fragments)].headers
    /\ \E i \in 1..(Len(fragments) - 1) :
          /\ ~fragments[i].quoted /\ ~fragments[i].headers /\ ~fragments[i].signature
          /\ content(fragments[i]) # <<>>
          /\ fragments[i].hidden

\* C3 as stated: every signature fragment of the result of read() is hidden.
C3_SignatureAlwaysHidden ==
    pc = "read" =>
        \A i \in 1..Len(fragments) : fragments[i].signature => fragments[i].hidden

\* a blank line is scanned while the line appended last matches the
\* device-signoff family
SignatureEvent == pc = "scan" /\ lines # <<>> /\ IsSignatureEnd(M, Head(lines))

C3_Step ==
    SignatureEvent =>
        /\ JustFinished
        /\ NewFragment.signature
        /\ NewFragment.hidden <=> (~found_visible \/ NewFragment.headers)

C3_Final ==
    pc = "read" =>
        \A i \in 1..Len(fragments) :
            fragments[i].signature =>
                (fragments[i].hidden <=>
                    \A j \in (i + 1)..Len(fragments) : fragments[j].hidden)

\* C3 (amended): the fragment gets signature = true; it is hidden when no
\* visible fragment had been found when it was finished (or it is a header
\* fragment), and it keeps hidden = false when a visible fragment was already
\* found lower in the message; in the result of read() a signature fragment
\* is hidden exactly when every fragment below it is hidden.
C3_SignatureHiddenUnlessVisibleFound == [][C3_Step]_vars /\ []C3_Final

\* a signature fragment that is not hidden, above a visible fragment
C3_Witness ==
    /\ pc = "read"
    /\ \E i \in 1..Len(fragments) :
          /\ fragments[i].signature
          /\ ~fragments[i].hidden
          /\ \E j \in (i + 1)..Len(fragments) : ~fragments[j].hidden

\* the lines of the fragments, in list order
RECURSIVE FragmentLines(_)
FragmentLines(frs) ==
    IF Len(frs) = 0 THEN <<>>
    ELSE Split(frs[1].content, "\n") \o FragmentLines(Tail(frs))

\* the message as normalised by the constructor
Normalized == Replace(input, <<"\r", "\n">>, <<"\n">>)

\* C4 as stated: the fragments' lines, in list order, are the lines of the
\* normalized message.
C4_PartitionOfNormalized ==
    pc = "read" => FragmentLines(fragments) = Split(Normalized, "\n")

\* C4 (amended): after read() the fragments' lines, in list order, are the
\* lines of the message text as read() left it (the normalized input cut at
\* the first multi-line quote header and with the line breaks inserted
\* before boundary runs).
C4_PartitionOfText ==
    pc = "read" => FragmentLines(fragments) = Split(text, "\n")

\* read() changed the text and produced several fragments, one of them of
\* two lines
C4_Witness ==
    /\ pc = "read"
    /\ text # Normalized
    /\ Len(fragments) >= 2
    /\ \E i \in 1..Len(fragments) : Len(Split(fragments[i].content, "\n")) >= 2

\* C5: read, parse_reply and cut_off_at_signature never reach an error state,
\* for every text, include and word_limit.
C5_NoError == pc # "error"

\* cut_off_at_signature returned for a text whose only line is a device
\* delimiter, with a word limit of 0
C5_Witness ==
    /\ pc = "cut"
    /\ input = <<"-", "-">>
    /\ word_limit = <<0>>
    /\ result = <<>>

\* the reply cut at the first device-signoff match after its first line
DeviceTruncated(b) == DeviceCut(b, SentFromDeviceMatches(b))

LeadingDeviceLine(b) ==
    SENT_FROM_DEVICE_REGEX(Split(unidecode(LStrip(b)), "\n")[1])

\* a configured warning occurs in b
HasWarning(b) ==
    \E k \in 1..Len(EMAIL_HEADER_WARNINGS) :
        \E i \in 0..Len(b) : PatternAt(b, i, EMAIL_HEADER_WARNINGS[k])

C7_RemovePrefixOfKeep ==
    (pc = "cut" /\ ~include) =>
        IsPrefix(result, cut_off_at_signature(Parsed, TRUE, word_limit))

\* places where a whitespace-delimited word of s ends
WordEnds(s) ==
    {i \in 1..Len(s) : ~IsSpace(s[i]) /\ (i = Len(s) \/ IsSpace(s[i + 1]))}
WordCount(s) == Cardinality(WordEnds(s))

\* s up to the end of its n-th whitespace-delimited word; all of s if it has
\* no more than n words
FirstWords(s, n) ==
    IF WordCount(s) <= n THEN s
    ELSE IF n = 0 THEN <<>>
    ELSE Prefix(s, CHOOSE i \in WordEnds(s) :
                      Cardinality({j \in WordEnds(s) : j < i}) = n - 1)

\* keep_signoff and remove_signoff take the word-limit branch
NoUsableSignoffEnd(b) ==
    ~(Len(SignoffMatches(b)) > 0 /\ SignoffMatches(b)[1].end < Len(DeviceTruncated(b)))
NoUsableSignoffStart(b) ==
    ~(Len(SignoffMatches(b)) > 0 /\ SignoffMatches(b)[1].start < Len(DeviceTruncated(b)))

\* C8 as stated: with no usable sign-off and word_limit = n, the fallback
\* returns the first n whitespace-delimited words of the body with the
\* newlines and spaces between them in place (outer whitespace apart).
C8_FirstWordsKept ==
    (pc = "cut" /\ include /\ word_limit # <<>> /\ NoUsableSignoffEnd(Parsed)) =>
        Strip(word_limit_cut_off(DeviceTruncated(Parsed), word_limit))
            = Strip(FirstWords(DeviceTruncated(Parsed), word_limit[1]))

\* C9 as stated: with include = False, no usable sign-off and a word limit,
\* the output has at most word_limit words.
C9_RemoveAppliesWordLimit ==
    (pc = "cut" /\ ~include /\ word_limit # <<>> /\ NoUsableSignoffStart(Parsed)) =>
        WordCount(result) <= word_limit[1]

\* C10 as stated: with no sign-off found, the fallback returns the body as it
\* is when word_limit is None or not smaller than the number of words.
C10_FallbackKeepsLayout ==
    (/\ pc = "cut"
     /\ include
     /\ SignoffMatches(Parsed) = <<>>
     /\ \/ word_limit = <<>>
        \/ word_limit[1] >= WordCount(DeviceTruncated(Parsed)))
    => word_limit_cut_off(DeviceTruncated(Parsed), word_limit) = DeviceTruncated(Parsed)

\* the device-signoff matches of the reply itself after its first line, with
\* their offsets in the reply
DeviceMatchesInReply(b) ==
    IF Find(b, <<"\n">>) # -1
    THEN AfterFirstLine(DeviceFinditer(b, 0), Find(b, <<"\n">>))
    ELSE <<>>

\* C11 as stated: when the reply has a device-signoff match, the body is
\* truncated at the start offset of the first one before any sign-off rule,
\* for either include value, so the output is the output for the reply cut at
\* that offset and nothing at or after the offset is in it.
C11_TruncatedAtDeviceMatch ==
    (pc = "cut" /\ DeviceMatchesInReply(Parsed) # <<>>) =>
        LET o == DeviceMatchesInReply(Parsed)[1].start
        IN  /\ Len(result) <= o
            /\ result = Strip(clean_email_content(Prefix(Parsed, o), include, word_limit))

\* the sign-off matches of the folded reply that start past its first line;
\* none when the reply is a single line
SignoffPastFirstLine(b) ==
    LET body_clean == unidecode_with_exceptions(b, UNIDECODE_EXCEPTIONS)
        first_newline == Find(body_clean, <<"\n">>)
    IN  SelectSeq(SignoffFinditer(body_clean, 0),
                  LAMBDA m : first_newline # -1 /\ m.start > first_newline)

\* the output of the cut-off for the reply b when the sign-off rule is given
\* the matches signoff_matches
CutOffWith(b, signoff_matches, inc, wl) ==
    LET cut == IF inc
               THEN keep_signoff(b, signoff_matches, SentFromDeviceMatches(b), wl)
               ELSE remove_signoff(b, signoff_matches, SentFromDeviceMatches(b), wl)
    IN  Strip(remove_substrings_from_text(StripDeviceLines(Strip(cut)),
                                          EMAIL_HEADER_WARNINGS))

\* C12 as stated: a sign-off match that starts in the first line of the reply
\* (anywhere, when the reply has no newline) is discarded, so for either
\* include value the output is the one the matches past the first line give.
C12_FirstLineSignoffDiscarded ==
    pc = "cut" =>
        result = CutOffWith(Parsed, SignoffPastFirstLine(Parsed), include, word_limit)

\* the steps of clean_email_content after the sign-off rule, and the final
\* strip of cut_off_at_signature
Finished(cut) ==
    Strip(remove_substrings_from_text(StripDeviceLines(Strip(cut)),
                                      EMAIL_HEADER_WARNINGS))

\* places of e where a signature-shaped token starts
TokenStarts(e) == {p \in 0..Len(e) : TokenEnd(e, p) # -1}

\* include = True meets a sign-off match that ends inside the truncated reply
UsableSignoffEnd(b) ==
    /\ SignoffMatches(b) # <<>>
    /\ SignoffMatches(b)[1].end < Len(DeviceTruncated(b))

\* the text after the first sign-off match
AfterSignoff(b) == From(DeviceTruncated(b), SignoffMatches(b)[1].end)

FoldKeepsOffsets(b) ==
    \A i \in 1..Len(b) : Len(unidecode_with_exceptions(<<b[i]>>, UNIDECODE_EXCEPTIONS)) = 1

SignoffMatchesInReply(b) ==
    SelectSeq(SignoffFinditer(b, 0),
              LAMBDA m : Find(b, <<"\n">>) # -1 /\ m.start > Find(b, <<"\n">>))

\* the reply cut at the first device-signoff match of the reply itself
TruncatedInReply(b) ==
    IF DeviceMatchesInReply(b) # <<>>
    THEN Prefix(b, DeviceMatchesInReply(b)[1].start)
    ELSE b

\* C14 as stated: with include = False and a sign-off match that starts
\* inside the current body, the output is the body cut at the start of the
\* match and then trimmed, so neither the sign-off nor anything after it is
\* in the output.
C14_CutAtSignoffStart ==
    (/\ pc = "cut"
     /\ ~include
     /\ SignoffMatchesInReply(Parsed) # <<>>
     /\ SignoffMatchesInReply(Parsed)[1].start < Len(TruncatedInReply(Parsed)))
    => LET start == SignoffMatchesInReply(Parsed)[1].start
       IN  /\ Len(result) <= start
           /\ result = Finished(Prefix(TruncatedInReply(Parsed), start))

\* the body as the sign-off rule leaves it
AfterSignoffRule ==
    IF include
    THEN keep_signoff(Parsed, SignoffMatches(Parsed), SentFromDeviceMatches(Parsed), word_limit)
    ELSE remove_signoff(Parsed, SignoffMatches(Parsed), SentFromDeviceMatches(Parsed), word_limit)

\* the first sign-off match is not strictly inside the truncated body: its
\* end for include = True, its start for include = False
StaleSignoff ==
    /\ SignoffMatches(Parsed) # <<>>
    /\ (IF include THEN SignoffMatches(Parsed)[1].end ELSE SignoffMatches(Parsed)[1].start)
          >= Len(DeviceTruncated(Parsed))

Scope(frs, i) == Cardinality({h \in 1..i : frs[h].headers})

\* C16 as stated: in the result of read(), each header scope has at most one
\* fragment that is not hidden.
C16_OneVisiblePerScope ==
    pc = "read" =>
        \A i \in 1..Len(fragments) : \A j \in 1..Len(fragments) :
            (/\ Scope(fragments, i) = Scope(fragments, j)
             /\ ~fragments[i].hidden
             /\ ~fragments[j].hidden) => i = j

\* a step of the scan: found_visible is set only by finishing a fragment the
\* default rule does not hide, and cleared only by finishing a header
\* fragment, so it is set at most once in a scope; a fragment finished while
\* it is clear and staying clear is hidden; a fragment other than a header
\* finished while it is set keeps hidden = false
C16_Step ==
    /\ (~found_visible /\ found_visible') =>
          (JustFinished /\ ~NewFragment.hidden /\ ~HidesFragment(NewFragment))
    /\ (found_visible /\ ~found_visible') => (JustFinished /\ NewFragment.headers)
    /\ (JustFinished /\ ~found_visible /\ ~found_visible') => NewFragment.hidden
    /\ (JustFinished /\ found_visible /\ ~NewFragment.headers) => ~NewFragment.hidden

\* the result of read(): in a scope, the lowest fragment that is not hidden
\* is one the default rule does not hide, and every fragment of the scope
\* above it is not hidden either
C16_Final ==
    pc = "read" =>
        \A i \in 1..Len(fragments) :
            (/\ ~fragments[i].hidden
             /\ \A j \in (i + 1)..Len(fragments) :
                   Scope(fragments, j) = Scope(fragments, i) => fragments[j].hidden)
            => /\ ~HidesFragment(fragments[i])
               /\ \A k \in 1..(i - 1) :
                     Scope(fragments, k) = Scope(fragments, i) => ~fragments[k].hidden

\* C16 (amended): in each header scope at most one fragment is designated
\* visible by the default rule, the first one finished that the rule does not
\* hide.  The fragments of the scope finished before it are hidden; those
\* finished after it keep hidden = false, whatever they are, unless a later
\* header fragment hides them.
C16_OneDesignatedPerScope == [][C16_Step]_vars /\ []C16_Final

\* a scope with a designated fragment and a quoted fragment above it that is
\* not hidden
C16_Witness ==
    /\ pc = "read"
    /\ \E i \in 1..Len(fragments) : \E k \in 1..(i - 1) :
          /\ Scope(fragments, k) = Scope(fragments, i)
          /\ ~fragments[i].hidden /\ ~HidesFragment(fragments[i])
          /\ ~fragments[k].hidden /\ fragments[k].quoted
    /\ \E h \in 1..Len(fragments) : fragments[h].headers

\* the place after the step of the fragment finished at place i before it
\* (FinishRead reverses the list)
PlaceAfter(i) == IF pc' = "read" THEN Len(fragments') + 1 - i ELSE i

\* C17: quoted and headers are set from the seed line when the fragment is
\* created and no later step changes them: not appending a line, not
\* finishing, not hiding; of a finished fragment only hidden is written.
C17_Step ==
    /\ (fragment' # <<>> /\ (fragment = <<>> \/ JustFinished)) =>
          /\ lines # <<>>
          /\ fragment'[1].quoted = QUOTED_REGEX(Head(lines))
          /\ fragment'[1].headers =
                (QUOTE_HDR_REGEX(Strip(Head(lines))) \/ HEADER_REGEX(Head(lines)))
    /\ (fragment # <<>> /\ fragment' # <<>> /\ ~JustFinished) =>
          /\ fragment'[1].quoted = fragment[1].quoted
          /\ fragment'[1].headers = fragment[1].headers
    /\ JustFinished =>
          /\ fragment # <<>>
          /\ NewFragment.quoted = fragment[1].quoted
          /\ NewFragment.headers = fragment[1].headers
    /\ Len(fragments') >= Len(fragments)
    /\ \A i \in 1..Len(fragments) :
          fragments'[PlaceAfter(i)] = [fragments[i] EXCEPT !.hidden = fragments'[PlaceAfter(i)].hidden]
C17_FlagsFixedAtCreation == [][C17_Step]_vars

\* a finished quoted fragment that was not hidden when it was finished (a
\* visible fragment lies below it) and was hidden afterwards by a header
\* fragment, still quoted
C17_Witness ==
    /\ pc = "read"
    /\ \E i \in 1..Len(fragments) : \E j \in 1..Len(fragments) : \E h \in 1..Len(fragments) :
          /\ h < j /\ j < i
          /\ fragments[h].headers
          /\ fragments[j].quoted /\ ~fragments[j].headers /\ fragments[j].hidden
          /\ ~HidesFragment(fragments[i]) /\ fragments[i].hidden
          /\ \A k \in (h + 1)..i : ~fragments[k].headers

\* C18 as stated: once read() has returned, no operation on the message,
\* reading reply or calling read() again, changes its list of fragments.
C18_Step ==
    pc \in {"read", "parsed", "rescan", "reread", "reparsed"} => fragments' = fragments
C18_FragmentsImmutable == [][C18_Step]_vars

\* C19 as stated: cut_off_at_signature called without word_limit runs with
\* include = True and a word limit of 100, so of a reply of more than 100
\* words with no sign-off it returns the first 100 words.
C19_DefaultLimitIs100 ==
    pc = "cutdefault" =>
        /\ include
        /\ word_limit = <<100>>
        /\ (WordCount(Parsed) > 100 /\ SignoffMatches(Parsed) = <<>>) =>
              result = Strip(FirstWords(Parsed, 100))

\* the body as truncation and the strip before the line removal leave it, its
\* lines, and the lines of its folded copy
TruncatedBody == Strip(AfterSignoffRule)
TruncatedLines == Split(TruncatedBody, "\n")
FoldedLines == Split(unidecode(TruncatedBody), "\n")
FirstLineMatches == SENT_FROM_DEVICE_REGEX(FoldedLines[1])
LastLineMatches == SENT_FROM_DEVICE_REGEX(FoldedLines[Len(FoldedLines)])

\* C20: after truncation, the first line is removed if it matches the
\* device-signoff family and the last line is removed if it matches it; the
\* lines between are kept as they are and in order, and go on to the warning
\* removal and the final trim.  A one-line body that matches gives the empty
\* string.
C20_LeadingAndTrailingLineRemoved ==
    pc = "cut" =>
        LET first == IF FirstLineMatches THEN 2 ELSE 1
            last == IF LastLineMatches THEN Len(TruncatedLines) - 1 ELSE Len(TruncatedLines)
        IN  /\ result = Strip(remove_substrings_from_text(
                            Join(SubSeq(TruncatedLines, first, last), <<"\n">>),
                            EMAIL_HEADER_WARNINGS))
            /\ (Len(TruncatedLines) = 1 /\ FirstLineMatches) => result = <<>>

\* a body whose first line and last line both match, with a line between
\* them that is the output
C20_Witness ==
    /\ pc = "cut"
    /\ Len(TruncatedLines) >= 3
    /\ FirstLineMatches
    /\ LastLineMatches
    /\ result # <<>>

\* the body handed to the warning removal
BeforeWarningRemoval == StripDeviceLines(Strip(AfterSignoffRule))

\* s without the occurrences of each of the texts
RECURSIVE WithoutOccurrences(_, _)
WithoutOccurrences(s, substrings) ==
    IF Len(substrings) = 0 THEN s
    ELSE WithoutOccurrences(Replace(s, substrings[1], <<>>), Tail(substrings))

\* C21 as stated: every occurrence of a configured warning is removed, the
\* rest of the body is left as it is, and the output holds no occurrence of a
\* warning and has no whitespace at its ends.
C21_WarningsRemovedRestKept ==
    pc = "cut" =>
        /\ result = Strip(WithoutOccurrences(BeforeWarningRemoval, EMAIL_HEADER_WARNINGS))
        /\ \A k \in 1..Len(EMAIL_HEADER_WARNINGS) :
              Find(result, EMAIL_HEADER_WARNINGS[k]) = -1
        /\ result = Strip(result)

\* the classification _scan_line gives a line
LineQuoted(line) == QUOTED_REGEX(line)
LineQuoteHeader(line) == QUOTE_HDR_REGEX(Strip(line))
LineHeader(line) == LineQuoteHeader(line) \/ HEADER_REGEX(line)

\* the lines placed in a fragment, seed first: those appended so far, or for
\* a finished fragment the lines of its content, bottom-up
PlacedLines(f) == IF f.lines # <<>> THEN f.lines ELSE Reverse(Split(f.content, "\n"))

\* the fragments of the message, finished or current
AllFragments == fragments \o fragment

\* C22 as stated: every line placed in a fragment has the quoted and header
\* classification of the fragment's flags.
C22_LinesShareClassification ==
    \A i \in 1..Len(AllFragments) :
        LET f == AllFragments[i]
        IN  \A k \in 1..Len(PlacedLines(f)) :
                /\ LineQuoted(PlacedLines(f)[k]) = f.quoted
                /\ LineHeader(PlacedLines(f)[k]) = f.headers

\* C22 (amended): the seed line of a fragment has the classification of the
\* fragment's flags, and so has every other line of it, except that a quoted
\* fragment also takes blank lines and quote-introducer lines.
C22_LinesShareClassificationOrFollowQuote ==
    \A i \in 1..Len(AllFragments) :
        LET f == AllFragments[i]
        IN  /\ LineQuoted(PlacedLines(f)[1]) = f.quoted
            /\ LineHeader(PlacedLines(f)[1]) = f.headers
            /\ \A k \in 2..Len(PlacedLines(f)) :
                  \/ /\ LineQuoted(PlacedLines(f)[k]) = f.quoted
                     /\ LineHeader(PlacedLines(f)[k]) = f.headers
                  \/ /\ f.quoted
                     /\ \/ LineQuoteHeader(PlacedLines(f)[k])
                        \/ Len(Strip(PlacedLines(f)[k])) = 0

\* a finished quoted fragment that holds a blank line and a quote-introducer
\* line
C22_Witness ==
    \E i \in 1..Len(fragments) :
        /\ fragments[i].quoted
        /\ \E k \in 2..Len(PlacedLines(fragments[i])) :
              Len(PlacedLines(fragments[i])[k]) = 0
        /\ \E k \in 2..Len(PlacedLines(fragments[i])) :
              /\ LineQuoteHeader(PlacedLines(fragments[i])[k])
              /\ ~LineQuoted(PlacedLines(fragments[i])[k])

\* a step of the loop of read() that scans the line Head(lines)
ScanStep == pc = "scan" /\ lines # <<>> /\ pc' = "scan"

\* the current fragment at the decision: none if the blank-line test has just
\* finished it as a signature
CurrentAtDecision == IF SignatureEvent THEN <<>> ELSE fragment

\* the condition under which the line is appended
AppendCondition ==
    /\ CurrentAtDecision # <<>>
    /\ \/ /\ fragment[1].headers = LineHeader(Head(lines))
          /\ fragment[1].quoted = LineQuoted(Head(lines))
       \/ /\ fragment[1].quoted
          /\ LineQuoteHeader(Head(lines)) \/ Len(Strip(Head(lines))) = 0

\* C23: the scanned line is appended to the current fragment iff one exists
\* and (a) its headers and quoted flags equal the line's classification or
\* (b) it is quoted and the line is a quote-introducer or blank; otherwise
\* the current fragment, if any, is finished and a new one is created with
\* headers and quoted taken from the line.
C23_Step ==
    ScanStep =>
        /\ AppendCondition =>
              /\ fragments' = fragments
              /\ fragment' = <<[fragment[1] EXCEPT !.lines = Append(@, Head(lines))]>>
        /\ ~AppendCondition =>
              /\ fragment' = <<[signature |-> FALSE, headers |-> LineHeader(Head(lines)),
                                hidden |-> FALSE, quoted |-> LineQuoted(Head(lines)),
                                content |-> <<>>, lines |-> <<Head(lines)>>]>>
              /\ Len(fragments') = Len(fragments) + (IF fragment # <<>> THEN 1 ELSE 0)
              /\ fragment # <<>> =>
                    /\ fragments'[Len(fragments')].quoted = fragment[1].quoted
                    /\ fragments'[Len(fragments')].headers = fragment[1].headers
                    /\ fragments'[Len(fragments')].content =
                          Join(Reverse(fragment[1].lines), <<"\n">>)
C23_ContinuationRule == [][C23_Step]_vars

\* a quoted fragment that took a blank line by (b), after another fragment
\* was finished and replaced
C23_Witness ==
    /\ pc = "scan"
    /\ fragments # <<>>
    /\ fragment # <<>>
    /\ fragment[1].quoted
    /\ Len(fragment[1].lines) >= 2
    /\ fragment[1].lines[Len(fragment[1].lines)] = <<>>

\* a blank line is scanned while a fragment is current whose line appended
\* last matches the device-signoff family
BlankAfterDeviceLine ==
    /\ pc = "scan"
    /\ lines # <<>>
    /\ fragment # <<>>
    /\ Len(Strip(Head(lines))) = 0
    /\ SENT_FROM_DEVICE_REGEX(Strip(fragment[1].lines[Len(fragment[1].lines)]))

\* a step of read(): a fragment is finished with signature = true exactly in
\* a step that scans such a blank line; it is then finished without the blank
\* line, which seeds the new current fragment
C24_Step ==
    /\ BlankAfterDeviceLine =>
          /\ JustFinished
          /\ NewFragment.signature
          /\ NewFragment.content = Join(Reverse(fragment[1].lines), <<"\n">>)
          /\ fragment' # <<>>
          /\ fragment'[1].lines = <<Head(lines)>>
    /\ (JustFinished /\ ~BlankAfterDeviceLine) => ~NewFragment.signature
    /\ \A i \in 1..Len(fragments) : fragments'[PlaceAfter(i)].signature = fragments[i].signature

\* C24: a fragment has signature = true iff a blank line was scanned while it
\* was the current fragment and its line appended last matched the
\* device-signoff family; it is finished before the blank line is placed, and
\* the blank line seeds a new fragment.  A current fragment never has the
\* flag.
C24_SignatureOnBlankLine ==
    [][C24_Step]_vars /\ [](fragment # <<>> => ~fragment[1].signature)

\* a signature fragment of more than one line was finished and the current
\* fragment is the blank line alone
C24_Witness ==
    /\ pc = "scan"
    /\ fragments # <<>>
    /\ fragments[Len(fragments)].signature
    /\ Find(fragments[Len(fragments)].content, <<"\n">>) # -1
    /\ fragment # <<>>
    /\ Len(fragment[1].lines) = 1
    /\ Len(Strip(fragment[1].lines[1])) = 0

\* the three reasons that hide a fragment finished before a visible one was
\* found
QuotedSignatureOrEmpty(f) ==
    f.quoted \/ f.signature \/ Len(Strip(f.content)) = 0

C25_Step ==
    /\ (JustFinished /\ ~NewFragment.headers /\ ~found_visible) =>
          /\ NewFragment.hidden <=> QuotedSignatureOrEmpty(NewFragment)
          /\ found_visible' <=> ~NewFragment.hidden
    /\ (~found_visible /\ found_visible') =>
          (JustFinished /\ ~NewFragment.headers /\ ~NewFragment.hidden)

\* C25: a fragment without headers finished while found_visible is false is
\* hidden iff it is quoted, a signature, or empty after trimming; otherwise it
\* is not hidden and found_visible becomes true; no other step makes
\* found_visible true.
C25_HiddenUntilVisibleFound == [][C25_Step]_vars

\* a visible fragment was found after a quoted and an empty fragment were
\* hidden
C25_Witness ==
    /\ pc = "scan"
    /\ found_visible
    /\ Len(fragments) = 3
    /\ fragments[1].hidden /\ Len(Strip(fragments[1].content)) = 0
    /\ fragments[2].hidden /\ fragments[2].quoted
    /\ ~fragments[3].hidden /\ ~fragments[3].headers

C26_Step ==
    /\ (JustFinished /\ ~NewFragment.headers /\ found_visible) =>
          /\ ~NewFragment.hidden
          /\ found_visible'
    /\ \A i \in 1..Len(fragments) :
          (~fragments[i].hidden /\ fragments'[PlaceAfter(i)].hidden) =>
              (JustFinished /\ NewFragment.headers)

\* C26: a fragment without headers finished while found_visible is true is
\* not hidden at that step, whatever its flags and content; a finished
\* fragment becomes hidden only in a step that finishes a headers fragment.
C26_LaterFragmentsStayVisible == [][C26_Step]_vars

\* the result of read() has a quoted fragment that is not hidden, and below a
\* headers fragment a fragment with content that the headers fragment hid
C26_Witness ==
    /\ pc = "read"
    /\ \E k \in 1..Len(fragments) :
          /\ ~fragments[k].headers /\ ~fragments[k].hidden
          /\ QuotedSignatureOrEmpty(fragments[k])
    /\ \E h \in 1..Len(fragments) : \E i \in (h + 1)..Len(fragments) :
          /\ fragments[h].headers
          /\ fragments[i].hidden /\ ~QuotedSignatureOrEmpty(fragments[i])

\* a text with its line breaks removed
WithoutNewlines(t) == Replace(t, <<"\n">>, <<>>)

\* C27: when a multi-line quote introducer matches, read() only removes the
\* newlines inside the first match: the text from the start of the match on
\* (the introducer and what follows it) is still found, line breaks aside, in
\* the lines of the fragments.
C27_IntroducerCollapsedAndKept ==
    pc = "read" =>
        LET s == Strip(Normalized)
            k == MULTI_QUOTE_HDR_REGEX(s)
        IN  k # -1 =>
              Find(WithoutNewlines(Join(FragmentLines(fragments), <<>>)),
                   WithoutNewlines(From(s, k))) # -1

\* C28: read() puts a line break before every boundary run (7 or more '_' or
\* '-', after an optional space) that starts the line after a line of text,
\* however many there are: in the text it scans no such run is left directly
\* under a line of text, and no fragment holds a boundary run directly under
\* a line of text.
C28_EveryBoundaryRunSeparated ==
    /\ pc # "new" => \A i \in 0..Len(text) : ~BoundaryAhead(text, i)
    /\ pc = "read" =>
          \A f \in 1..Len(fragments) :
              \A i \in 0..Len(fragments[f].content) :
                  ~BoundaryAhead(fragments[f].content, i)

\* the lines of the message
TextLines == Split(Normalized, "\n")

\* no line is classified quoted, header or quote introducer, and neither
\* pattern of the preprocessing matches
PlainText ==
    /\ \A j \in 1..Len(TextLines) :
          /\ ~LineQuoted(TextLines[j])
          /\ ~LineHeader(TextLines[j])
          /\ ~LineQuoteHeader(TextLines[j])
    /\ MULTI_QUOTE_HDR_REGEX(Strip(Normalized)) = -1
    /\ \A i \in 0..Len(Normalized) : ~BoundaryAhead(Normalized, i)

\* a blank line is scanned right after a line of the device-signoff family,
\* that is, it stands directly above it in the text
BlankAboveDeviceLine ==
    \E j \in 2..Len(TextLines) :
        /\ Len(Strip(TextLines[j - 1])) = 0
        /\ SENT_FROM_DEVICE_REGEX(Strip(TextLines[j]))

OneVisibleFragment ==
    pc = "read" =>
        /\ Len(fragments) = 1
        /\ Strip(input) # <<>> => ~fragments[1].hidden

\* C29 as stated: for such a text read() yields one fragment, not hidden
\* unless the text is blank, and parse_reply returns the text stripped.
C29_PlainTextReturnedStripped ==
    (PlainText /\ ~BlankAboveDeviceLine) =>
        /\ OneVisibleFragment
        /\ pc = "parsed" => result = Strip(input)

\* C29 (amended): for such a text read() yields one fragment, not hidden
\* unless the text is blank, and parse_reply returns the text with every
\* "\r\n" replaced by "\n" and then stripped; blank lines inside the text do
\* not split the fragment.
C29_PlainTextReturnedNormalized ==
    (PlainText /\ ~BlankAboveDeviceLine) =>
        /\ OneVisibleFragment
        /\ pc = "parsed" => result = Strip(Normalized)

\* parse_reply returned for such a text that holds a "\r\n"
C29_Witness ==
    /\ pc = "parsed"
    /\ PlainText
    /\ ~BlankAboveDeviceLine
    /\ Normalized # input
    /\ Len(TextLines) >= 2
    /\ Len(fragments) = 1
    /\ result # <<>>

(***************************************************************************)
(* unidecode_with_exceptions called on a text                              *)
(***************************************************************************)
\* pieces of the texts folded: a letter, a digit, the euro sign, the dollar,
\* the horizontal ellipsis, and the text of the euro placeholder
FoldVocabulary ==
    { <<"x">>, <<"5">>, <<"U+20AC">>, <<"$">>, <<"U+2026">>, UNIDECODE_EXCEPTIONS[1][2] }

FoldTexts ==
    UNION { { Join(ps, <<>>) : ps \in [1..k -> FoldVocabulary] } : k \in 0..MaxFoldTokens }

InitFold == InitWith(FoldTexts) /\ calls = <<>>

\* EmailMessage.unidecode_with_exceptions(text, UNIDECODE_EXCEPTIONS)
Fold ==
    /\ pc = "new"
    /\ result' = unidecode_with_exceptions(input, UNIDECODE_EXCEPTIONS)
    /\ pc' = "folded"
    /\ UNCHANGED <<calls, input, text, lines, fragments, fragment, found_visible,
                   include, word_limit>>

NextFold == Fold

SpecFold == InitFold /\ [][NextFold]_vars

\* the configured currency symbols of the model
IsCurrencySymbol(c) == \E e \in 1..Len(UNIDECODE_EXCEPTIONS) : <<c>> = UNIDECODE_EXCEPTIONS[e][1]

\* C30: in the folded copy every currency symbol of the text stands at the
\* position it has in the text, and every currency symbol of the folded copy
\* is a currency symbol of the text at that position (nothing else is turned
\* into or out of a currency symbol), so that offsets around currency amounts
\* are the same in both.
C30_CurrencyKeepsPlace ==
    pc = "folded" =>
        /\ \A i \in 1..Len(input) :
              IsCurrencySymbol(input[i]) => (i <= Len(result) /\ result[i] = input[i])
        /\ \A i \in 1..Len(result) :
              IsCurrencySymbol(result[i]) => (i <= Len(input) /\ input[i] = result[i])

(***************************************************************************)
(* Concurrent callers.  Every call of read / parse_reply /                 *)
(* cut_off_at_signature constructs its own EmailMessage; the steps of the  *)
(* calls interleave.  The pattern tables, EMAIL_HEADER_WARNINGS and        *)
(* UNIDECODE_EXCEPTIONS are class and module attributes that no statement  *)
(* assigns: they are the constant definitions above.                       *)
(***************************************************************************)
Callers == {1, 2}

ConcurrentVocabulary ==
    { <<>>, <<"x">>, <<">", "x">>, <<"A", ":", "x">>, <<"-", "-">> }

ConcurrentTexts == TextsOf(ConcurrentVocabulary, MaxConcurrentLines)

\* EmailMessage(text): the attributes of a new instance, and the arguments
\* and the return value of the call that made it
EmailMessage(t) ==
    [input |-> t, text |-> Replace(t, <<"\r", "\n">>, <<"\n">>), lines |-> <<>>,
     fragments |-> <<>>, fragment |-> <<>>, found_visible |-> FALSE,
     pc |-> "new", include |-> TRUE, word_limit |-> <<>>, result |-> <<>>]

\* the callers hold different inputs
InitConcurrent ==
    /\ InitWith({<<>>})
    /\ calls \in [Callers -> {EmailMessage(t) : t \in ConcurrentTexts}]
    /\ \A c \in Callers : \A d \in Callers \ {c} : calls[c].input # calls[d].input

\* WriteSelf, but found_visible is one attribute shared by all Messages
WriteShared(c, m) ==
    [d \in Callers |->
        IF d = c THEN m ELSE [calls[d] EXCEPT !.found_visible = m.found_visible]]

\* the assignments of a step to the attributes of self, the caller's Message
WriteSelf(c, m) == [calls EXCEPT ![c] = m]

\* the assembler state of a caller's message
MOf(m) == [fragments |-> m.fragments, fragment |-> m.fragment,
           found_visible |-> m.found_visible]

ReadBy(c) ==
    /\ calls[c].pc = "new"
    /\ calls' = WriteSelf(c, [calls[c] EXCEPT
                    !.text = Preprocess(calls[c].text),
                    !.lines = Reverse(Split(Preprocess(calls[c].text), "\n")),
                    !.found_visible = FALSE,
                    !.pc = "scan"])
    /\ UNCHANGED <<input, text, lines, fragments, fragment, found_visible, pc,
                   include, word_limit, result>>

ScanLineBy(c) ==
    /\ calls[c].pc = "scan"
    /\ calls[c].lines # <<>>
    /\ LET m == calls[c]
           after == scan_line(MOf(m), Head(m.lines))
       IN  calls' = WriteSelf(c,
               IF ScanRaises(MOf(m)) THEN [m EXCEPT !.pc = "error"]
               ELSE [m EXCEPT !.fragments = after.fragments,
                              !.fragment = after.fragment,
                              !.found_visible = after.found_visible,
                              !.lines = Tail(m.lines)])
    /\ UNCHANGED <<input, text, lines, fragments, fragment, found_visible, pc,
                   include, word_limit, result>>

FinishReadBy(c) ==
    /\ calls[c].pc = "scan"
    /\ calls[c].lines = <<>>
    /\ LET m == calls[c]
           after == finish_fragment(MOf(m))
       IN  calls' = WriteSelf(c, [m EXCEPT !.fragments = Reverse(after.fragments),
                                           !.fragment = after.fragment,
                                           !.found_visible = after.found_visible,
                                           !.pc = "read"])
    /\ UNCHANGED <<input, text, lines, fragments, fragment, found_visible, pc,
                   include, word_limit, result>>

ParseReplyBy(c) ==
    /\ calls[c].pc = "read"
    /\ calls' = WriteSelf(c, [calls[c] EXCEPT !.result = reply(calls[c].fragments),
                                              !.pc = "parsed"])
    /\ UNCHANGED <<input, text, lines, fragments, fragment, found_visible, pc,
                   include, word_limit, result>>

CutOffAtSignatureBy(c) ==
    /\ calls[c].pc = "read"
    /\ \E inc \in BOOLEAN, wl \in WordLimits :
          LET m == calls[c]
              parsed_email == reply(m.fragments)
          IN  calls' = WriteSelf(c,
                  IF CleanRaises(parsed_email)
                  THEN [m EXCEPT !.include = inc, !.word_limit = wl, !.pc = "error"]
                  ELSE [m EXCEPT !.include = inc, !.word_limit = wl,
                                 !.result = cut_off_at_signature(parsed_email, inc, wl),
                                 !.pc = "cut"])
    /\ UNCHANGED <<input, text, lines, fragments, fragment, found_visible, pc,
                   include, word_limit, result>>

NextConcurrent ==
    \E c \in Callers :
        \/ ReadBy(c) \/ ScanLineBy(c) \/ FinishReadBy(c) \/ ParseReplyBy(c)
        \/ CutOffAtSignatureBy(c)

SpecConcurrent == InitConcurrent /\ [][NextConcurrent]_vars

\* read() run from beginning to end on a message of its own: the loop over
\* the lines, and the fragments it returns
RECURSIVE ScanAll(_, _)
ScanAll(m, ls) ==
    IF ls = <<>> THEN m ELSE ScanAll(scan_line(m, Head(ls)), Tail(ls))

ReadAlone(t) ==
    LET t1 == Preprocess(Replace(t, <<"\r", "\n">>, <<"\n">>))
        m == ScanAll([fragments |-> <<>>, fragment |-> <<>>, found_visible |-> FALSE],
                     Reverse(Split(t1, "\n")))
    IN  Reverse(finish_fragment(m).fragments)

\* a step writes the Message of one caller only
C31_Step == \E c \in Callers : \A d \in Callers \ {c} : calls'[d] = calls[d]

\* what a call has returned is what it returns when it runs alone
C31_SameAsAlone ==
    \A c \in Callers :
        LET m == calls[c]
        IN  /\ m.pc # "error"
            /\ m.pc \in {"read", "parsed", "cut"} => m.fragments = ReadAlone(m.input)
            /\ m.pc = "parsed" => m.result = reply(ReadAlone(m.input))
            /\ m.pc = "cut" =>
                  m.result = cut_off_at_signature(reply(ReadAlone(m.input)),
                                                  m.include, m.word_limit)

\* C31: under every interleaving of the steps of calls on different inputs,
\* a step writes only the Message of the caller that takes it, and every
\* call returns the fragments and the result it returns when it runs alone.
C31_CallersDoNotInterfere == [][C31_Step]_vars /\ []C31_SameAsAlone

\* one caller has its result while the other is inside read(), having
\* found its visible fragment and with a fragment still open
C31_Witness ==
    /\ calls # <<>>
    /\ calls[1].pc = "cut" /\ calls[1].result # <<>>
    /\ calls[2].pc = "scan"
    /\ calls[2].fragment # <<>>
    /\ calls[2].found_visible
    /\ Len(calls[2].fragments) >= 1

\* the places of the fragments that are not hidden
NotHidden == {i \in 1..Len(fragments) : ~fragments[i].hidden}

\* C32: after read() the fragments that are not hidden are a prefix of the
\* list (below a hidden fragment every fragment is hidden), and the last
\* fragment of a non-empty prefix is not quoted, not a header, not a
\* signature and has content.
C32_VisiblePrefix ==
    pc = "read" =>
        /\ \A i \in 1..Len(fragments) : \A j \in (i + 1)..Len(fragments) :
              fragments[i].hidden => fragments[j].hidden
        /\ NotHidden # {} =>
              LET last == fragments[MaxOf(NotHidden)]
              IN  /\ ~last.quoted
                  /\ ~last.headers
                  /\ ~last.signature
                  /\ Len(Strip(last.content)) > 0

\* read() returned a prefix of two fragments, the first of them quoted, above
\* a header fragment and a fragment with content that it hid
C32_Witness ==
    /\ pc = "read"
    /\ Len(fragments) = 4
    /\ NotHidden = {1, 2}
    /\ fragments[1].quoted
    /\ fragments[3].headers
    /\ Len(Strip(fragments[4].content)) > 0 /\ ~fragments[4].quoted

\* a step that finishes a headers fragment leaves it hidden and found_visible
\* false
C33_Step ==
    (JustFinished /\ NewFragment.headers) => (NewFragment.hidden /\ ~found_visible')

\* the fragments without the headers fragments
WithoutHeaders(frs) == SelectSeq(frs, LAMBDA f : ~f.headers)

\* every finished headers fragment is hidden, and the reply is made of the
\* fragments that are not headers fragments
C33_State ==
    /\ \A i \in 1..Len(fragments) : fragments[i].headers => fragments[i].hidden
    /\ pc \in {"read", "parsed"} => Parsed = reply(WithoutHeaders(fragments))
    /\ pc = "parsed" => result = reply(WithoutHeaders(fragments))

\* C33: a headers fragment is hidden from the step that finishes it, and
\* found_visible is false right after that step; its content is no part of
\* the reply.
C33_HeadersAlwaysHidden == [][C33_Step]_vars /\ []C33_State

\* parse_reply returned a reply for a message with a headers fragment that
\* has content, read after a visible fragment was found below it
C33_Witness ==
    /\ pc = "parsed"
    /\ result # <<>>
    /\ \E h \in 1..Len(fragments) :
          /\ fragments[h].headers
          /\ Len(Strip(fragments[h].content)) > 0
          /\ h < Len(fragments)
          /\ ~fragments[Len(fragments)].quoted
          /\ Len(Strip(fragments[Len(fragments)].content)) > 0

\* a step sets no hidden flag back to false, and takes found_visible from
\* true to false only by finishing a headers fragment
C34_Step ==
    /\ \A i \in 1..Len(fragments) :
          fragments[i].hidden => fragments'[PlaceAfter(i)].hidden
    /\ (fragment # <<>> /\ fragment[1].hidden) =>
          (IF JustFinished THEN NewFragment.hidden
           ELSE fragment' # <<>> /\ fragment'[1].hidden)
    /\ (found_visible /\ ~found_visible') => (JustFinished /\ NewFragment.headers)

\* C34: while the message is assembled a hidden flag that is true stays
\* true, and found_visible goes from true to false only in the step that
\* finishes a headers fragment.
C34_HiddenMonotone == [][C34_Step]_vars

\* during the scan a headers fragment has just hidden a fragment that had
\* been found visible, after a fragment hidden before it
C34_Witness ==
    /\ pc = "scan"
    /\ ~found_visible
    /\ Len(fragments) = 3
    /\ fragments[1].hidden /\ fragments[1].quoted
    /\ fragments[2].hidden /\ ~HidesFragment(fragments[2])
    /\ fragments[3].headers

\* the steps of clean_email_content after the sign-off rule, and the final
\* strip of cut_off_at_signature
AfterCut(cut) ==
    Strip(remove_substrings_from_text(StripDeviceLines(Strip(cut)), EMAIL_HEADER_WARNINGS))

\* the output when the sign-off rule is handed the first match of each family
\* alone
CutOffWithFirstMatches(b, inc, wl) ==
    LET so == Prefix(SignoffMatches(b), 1)
        dv == Prefix(SentFromDeviceMatches(b), 1)
    IN  AfterCut(IF inc THEN keep_signoff(b, so, dv, wl)
                         ELSE remove_signoff(b, so, dv, wl))

\* the first sign-off match lies at or past the end of the body left by the
\* device cut
FirstSignoffUnusable(b, inc) ==
    /\ SignoffMatches(b) # <<>>
    /\ (IF inc THEN SignoffMatches(b)[1].end ELSE SignoffMatches(b)[1].start)
          >= Len(DeviceTruncated(b))

\* C35: the output of cut_off_at_signature is the one the first sign-off
\* match and the first device match alone give, and when the first sign-off
\* match is unusable the output is the word-limit fallback of the body.
C35_FirstMatchesDecide ==
    pc = "cut" =>
        /\ result = CutOffWithFirstMatches(Parsed, include, word_limit)
        /\ FirstSignoffUnusable(Parsed, include) =>
              result = AfterCut(word_limit_cut_off(DeviceTruncated(Parsed), word_limit))

==========================================================================
